---------------------------- MODULE Spec2Model ----------------------------
(***************************************************************************)
(* Model of the KYC document step of id-verify-ai: the text-matching       *)
(* utilities (normalizeText, getSimilarity, the four field matchers and    *)
(* the document classifier) and the DocumentUpload component that runs     *)
(* them on the OCR text of an uploaded Aadhaar card.                       *)
(*                                                                         *)
(* A text is a sequence of characters; a character is a one-character      *)
(* string ("a", "7", " ", "\n"), a non-ASCII character is named by its     *)
(* code point ("u0906" is DEVANAGARI LETTER AA).  A confidence is an exact *)
(* rational [n |-> numerator, d |-> denominator] with d > 0.               *)
(***************************************************************************)
EXTENDS Integers, Sequences, FiniteSets, TLC

(***************************************************************************)
(* Characters and character classes of the regular expressions.            *)
(***************************************************************************)
LowerAlphabet ==
    <<"a", "b", "c", "d", "e", "f", "g", "h", "i", "j", "k", "l", "m",
      "n", "o", "p", "q", "r", "s", "t", "u", "v", "w", "x", "y", "z">>

UpperAlphabet ==
    <<"A", "B", "C", "D", "E", "F", "G", "H", "I", "J", "K", "L", "M",
      "N", "O", "P", "Q", "R", "S", "T", "U", "V", "W", "X", "Y", "Z">>

DigitChars == <<"0", "1", "2", "3", "4", "5", "6", "7", "8", "9">>

Range(s) == {s[i] : i \in 1..Len(s)}

\* \d
Digit == Range(DigitChars)

\* \w : ASCII letters, digits and underscore only
WordChar == Range(LowerAlphabet) \cup Range(UpperAlphabet) \cup Digit \cup {"_"}

\* \s
Space == {" ", "\n", "\t"}

\* String.prototype.toLowerCase on one character
toLowerChar(c) ==
    IF c \in Range(UpperAlphabet)
    THEN LowerAlphabet[CHOOSE i \in 1..26 : UpperAlphabet[i] = c]
    ELSE c

toLowerCase(t) == [i \in 1..Len(t) |-> toLowerChar(t[i])]

\* The characters of t that satisfy keep, in order
RECURSIVE Filter(_, _)
Filter(t, keep) ==
    IF Len(t) = 0 THEN <<>>
    ELSE IF Len(t) = 1 THEN (IF t[1] \in keep THEN t ELSE <<>>)
    ELSE LET h == Len(t) \div 2
         IN  Filter(SubSeq(t, 1, h), keep) \o Filter(SubSeq(t, h + 1, Len(t)), keep)

Min(S) == CHOOSE x \in S : \A y \in S : x <= y

Max(S) == CHOOSE x \in S : \A y \in S : x >= y

\* text.replace(/\s+/g, ' ')
\* (characters lo..hi of t: every run of whitespace leaves one space)
RECURSIVE CollapseRange(_, _, _)
CollapseRange(t, lo, hi) ==
    IF lo > hi THEN <<>>
    ELSE IF lo = hi
         THEN IF t[lo] \notin Space THEN <<t[lo]>>
              ELSE IF lo < Len(t) /\ t[lo + 1] \in Space THEN <<>>
              ELSE <<" ">>
    ELSE LET h == (lo + hi) \div 2
         IN  CollapseRange(t, lo, h) \o CollapseRange(t, h + 1, hi)

CollapseSpaces(t) == CollapseRange(t, 1, Len(t))

\* String.prototype.trim
Trim(t) ==
    LET solid == {i \in 1..Len(t) : t[i] \notin Space}
    IN  IF solid = {} THEN <<>> ELSE SubSeq(t, Min(solid), Max(solid))

\* text.replace(/[^\w\s]/g, '')
RemovePunctuation(t) == Filter(t, WordChar \cup Space)

\* normalizeText collapsing the whitespace before it removes punctuation
normalizeTextCollapseFirst(text) ==
    Trim(RemovePunctuation(CollapseSpaces(toLowerCase(text))))

normalizeText(text) == Trim(CollapseSpaces(RemovePunctuation(toLowerCase(text))))

extractDigits(text) == Filter(text, Digit)

\* String.prototype.includes
Includes(hay, needle) ==
    \E i \in 0..(Len(hay) - Len(needle)) :
        SubSeq(hay, i + 1, i + Len(needle)) = needle

\* String.prototype.slice(-n)
SliceLast(t, n) == IF Len(t) <= n THEN t ELSE SubSeq(t, Len(t) - n + 1, Len(t))

(***************************************************************************)
(* Confidences: exact rationals.                                           *)
(***************************************************************************)
Rat(n, d) == [n |-> n, d |-> d]

RGe(a, b) == a.n * b.d >= b.n * a.d

RGt(a, b) == a.n * b.d > b.n * a.d

REq(a, b) == a.n * b.d = b.n * a.d

RAdd(a, b) == Rat(a.n * b.d + b.n * a.d, a.d * b.d)

RMin(a, b) == IF RGe(a, b) THEN b ELSE a

Zero == Rat(0, 1)

One == Rat(1, 1)

(***************************************************************************)
(* Regular expressions: a pattern is a sequence of items, a word boundary  *)
(* \b or a character class repeated min..max times (greedy, backtracking). *)
(***************************************************************************)
WB == [k |-> "wb"]

Cls(S, lo, hi) == [k |-> "cls", set |-> S, min |-> lo, max |-> hi]

IsWordAt(t, i) == i >= 1 /\ i <= Len(t) /\ t[i] \in WordChar

\* \b holds before position i when exactly one side is a word character
WordBoundary(t, i) == IsWordAt(t, i - 1) # IsWordAt(t, i)

\* how many characters from position i on lie in S, at most max
RECURSIVE RunLen(_, _, _, _)
RunLen(t, i, S, max) ==
    IF max = 0 \/ i > Len(t) \/ t[i] \notin S THEN 0
    ELSE 1 + RunLen(t, i + 1, S, max - 1)

\* the position after a match of items k.. of p that starts at i; 0 for none
RECURSIVE MatchItems(_, _, _, _)
RECURSIVE TryCount(_, _, _, _, _)
MatchItems(t, i, p, k) ==
    IF k > Len(p) THEN i
    ELSE IF p[k].k = "wb"
         THEN IF WordBoundary(t, i) THEN MatchItems(t, i, p, k + 1) ELSE 0
         ELSE LET run == RunLen(t, i, p[k].set, p[k].max)
              IN  IF run < p[k].min THEN 0 ELSE TryCount(t, i, p, k, run)

TryCount(t, i, p, k, n) ==
    LET r == MatchItems(t, i + n, p, k + 1)
    IN  IF r # 0 THEN r
        ELSE IF n > p[k].min THEN TryCount(t, i, p, k, n - 1)
        ELSE 0

\* String.prototype.match with a /g pattern: the matched substrings, left to
\* right, without overlap (<<>> stands for null: the callers test for it)
RECURSIVE MatchAll(_, _, _)
MatchAll(t, p, from) ==
    LET starts == {i \in from..Len(t) : MatchItems(t, i, p, 1) > i}
    IN  IF starts = {} THEN <<>>
        ELSE LET i == Min(starts)
             IN  <<SubSeq(t, i, MatchItems(t, i, p, 1) - 1)>>
                 \o MatchAll(t, p, MatchItems(t, i, p, 1))

\* RegExp.prototype.test
Test(t, p) == \E i \in 1..Len(t) : MatchItems(t, i, p, 1) > i

(***************************************************************************)
(* Similarity: compareTwoStrings of the string-similarity package (Dice    *)
(* coefficient over character bigrams, whitespace removed first).          *)
(***************************************************************************)
Bigrams(s) == [i \in 1..(Len(s) - 1) |-> <<s[i], s[i + 1]>>]

RemoveAt(s, i) == SubSeq(s, 1, i - 1) \o SubSeq(s, i + 1, Len(s))

\* every bigram of the second string takes one equal bigram of the first
RECURSIVE IntersectionSize(_, _)
IntersectionSize(firstBigrams, secondBigrams) ==
    IF secondBigrams = <<>> THEN 0
    ELSE IF \E i \in 1..Len(firstBigrams) : firstBigrams[i] = Head(secondBigrams)
         THEN LET i == CHOOSE j \in 1..Len(firstBigrams) :
                           firstBigrams[j] = Head(secondBigrams)
              IN  1 + IntersectionSize(RemoveAt(firstBigrams, i), Tail(secondBigrams))
         ELSE IntersectionSize(firstBigrams, Tail(secondBigrams))

compareTwoStrings(str1, str2) ==
    LET first == Filter(str1, {c \in Range(str1) : c \notin Space})
        second == Filter(str2, {c \in Range(str2) : c \notin Space})
    IN  IF first = second THEN One
        ELSE IF Len(first) < 2 \/ Len(second) < 2 THEN Zero
        ELSE Rat(2 * IntersectionSize(Bigrams(first), Bigrams(second)),
                 Len(first) + Len(second) - 2)

\* getSimilarity that normalizes its first argument only
getSimilarityFirstOnly(str1, str2) ==
    compareTwoStrings(normalizeText(str1), str2)

\* getSimilarity by the Dice coefficient alone, without the test for equal
\* strings
getSimilarityDiceOnly(str1, str2) ==
    LET first == Filter(normalizeText(str1), WordChar)
        second == Filter(normalizeText(str2), WordChar)
    IN  IF Len(first) < 2 \/ Len(second) < 2 THEN Zero
        ELSE Rat(2 * IntersectionSize(Bigrams(first), Bigrams(second)),
                 Len(first) + Len(second) - 2)

getSimilarity(str1, str2) ==
    compareTwoStrings(normalizeText(str1), normalizeText(str2))

(***************************************************************************)
(* What a call yields: a returned match result, or a raised exception.     *)
(* extracted is <<>> for undefined and <<text>> for a string.              *)
(***************************************************************************)
Return(found, confidence, extracted) ==
    [kind |-> "return", found |-> found, confidence |-> confidence,
     extracted |-> extracted]

Throw(error) == [kind |-> "throw", error |-> error]

NotFound == Return(FALSE, Zero, <<>>)

(***************************************************************************)
(* findNameInText                                                          *)
(***************************************************************************)
\* String.prototype.split(' ')
RECURSIVE Split(_, _)
Split(t, from) ==
    LET spaces == {i \in from..Len(t) : t[i] = " "}
    IN  IF spaces = {} THEN <<SubSeq(t, from, Len(t))>>
        ELSE <<SubSeq(t, from, Min(spaces) - 1)>> \o Split(t, Min(spaces) + 1)

\* Array.prototype.join(' ')
RECURSIVE Join(_)
Join(parts) ==
    IF parts = <<>> THEN <<>>
    ELSE IF Len(parts) = 1 THEN parts[1]
         ELSE parts[1] \o <<" ">> \o Join(Tail(parts))

RECURSIVE FilterSeq(_, _)
FilterSeq(s, keep) ==
    IF s = <<>> THEN <<>>
    ELSE IF Head(s) \in keep THEN <<Head(s)>> \o FilterSeq(Tail(s), keep)
         ELSE FilterSeq(Tail(s), keep)

NameThreshold == Rat(7, 10)

PartialNameThreshold == Rat(6, 10)

\* the sliding window of words from position i on: its best similarity so far
RECURSIVE BestWindow(_, _, _, _, _)
BestWindow(normalizedName, words, n, i, best) ==
    IF i > Len(words) - n + 1 THEN best
    ELSE LET window == Join(SubSeq(words, i, i + n - 1))
             similarity == getSimilarity(normalizedName, window)
         IN  IF RGt(similarity, best.match)
             THEN BestWindow(normalizedName, words, n, i + 1,
                             [match |-> similarity, text |-> window])
             ELSE BestWindow(normalizedName, words, n, i + 1, best)

\* findNameInText without the substring test and the test of the parts: only
\* the sliding window decides
findNameInTextFuzzyOnly(name, documentText) ==
    LET normalizedName == normalizeText(name)
        normalizedText == normalizeText(documentText)
        parts == Split(normalizedName, 1)
        nameParts == FilterSeq(parts, {part \in Range(parts) : Len(part) > 1})
        words == Split(normalizedText, 1)
        best == BestWindow(normalizedName, words, Len(nameParts), 1,
                           [match |-> Zero, text |-> <<>>])
    IN  IF Len(nameParts) = 0 THEN NotFound
        ELSE Return(RGe(best.match, NameThreshold), best.match,
                    IF RGe(best.match, NameThreshold) THEN <<best.text>> ELSE <<>>)

findNameInText(name, documentText) ==
    LET normalizedName == normalizeText(name)
        normalizedText == normalizeText(documentText)
        parts == Split(normalizedName, 1)
        nameParts == FilterSeq(parts, {part \in Range(parts) : Len(part) > 1})
        foundParts == FilterSeq(nameParts,
                          {part \in Range(nameParts) : Includes(normalizedText, part)})
        partialConfidence == Rat(Len(foundParts), Len(nameParts))
        words == Split(normalizedText, 1)
        best == BestWindow(normalizedName, words, Len(nameParts), 1,
                           [match |-> Zero, text |-> <<>>])
    IN  IF Len(nameParts) = 0 THEN NotFound
        ELSE IF Includes(normalizedText, normalizedName)
             THEN Return(TRUE, One, <<name>>)
        ELSE IF RGe(partialConfidence, PartialNameThreshold)
             THEN Return(TRUE, partialConfidence, <<Join(foundParts)>>)
        ELSE Return(RGe(best.match, NameThreshold), best.match,
                    IF RGe(best.match, NameThreshold) THEN <<best.text>> ELSE <<>>)

(***************************************************************************)
(* findPhoneInText                                                         *)
(***************************************************************************)
phonePatterns ==
    << <<WB, Cls({"6", "7", "8", "9"}, 1, 1), Cls(Digit, 9, 9), WB>>,
       <<WB, Cls(Digit, 10, 10), WB>>,
       <<WB, Cls(Digit, 3, 3), Cls(Space \cup {"-"}, 0, 1), Cls(Digit, 3, 3),
         Cls(Space \cup {"-"}, 0, 1), Cls(Digit, 4, 4), WB>>,
       <<WB, Cls({"+"}, 1, 1), Cls({"9"}, 1, 1), Cls({"1"}, 1, 1),
         Cls(Space \cup {"-"}, 0, 1), Cls(Digit, 10, 10), WB>> >>

PhoneThreshold == Rat(8, 10)

\* the candidates in the order the two loops visit them
RECURSIVE Candidates(_, _)
Candidates(documentText, patterns) ==
    IF patterns = <<>> THEN <<>>
    ELSE MatchAll(documentText, Head(patterns), 1)
         \o Candidates(documentText, Tail(patterns))

RECURSIVE FirstPhone(_, _)
FirstPhone(matches, last10Digits) ==
    IF matches = <<>> THEN NotFound
    ELSE LET match == Head(matches)
             matchLast10 == SliceLast(extractDigits(match), 10)
             similarity == getSimilarity(last10Digits, matchLast10)
         IN  IF matchLast10 = last10Digits THEN Return(TRUE, One, <<match>>)
             ELSE IF RGe(similarity, PhoneThreshold)
                  THEN Return(TRUE, similarity, <<match>>)
             ELSE FirstPhone(Tail(matches), last10Digits)

findPhoneInText(phoneInput, documentText) ==
    FirstPhone(Candidates(documentText, phonePatterns),
               SliceLast(extractDigits(phoneInput), 10))

(***************************************************************************)
(* findAadhaarInText                                                       *)
(***************************************************************************)
GroupedAadhaar ==
    <<WB, Cls(Digit, 4, 4), Cls(Space, 0, 1), Cls(Digit, 4, 4),
      Cls(Space, 0, 1), Cls(Digit, 4, 4), WB>>

aadhaarPatterns == <<GroupedAadhaar, <<WB, Cls(Digit, 12, 12), WB>> >>

\* no threshold at all: every candidate is accepted at its similarity
AadhaarThresholdNone == Rat(0, 10)

AadhaarThreshold == Rat(9, 10)

RECURSIVE FirstAadhaar(_, _)
FirstAadhaar(matches, inputDigits) ==
    IF matches = <<>> THEN NotFound
    ELSE LET match == Head(matches)
             matchDigits == extractDigits(match)
             similarity == getSimilarity(inputDigits, matchDigits)
         IN  IF matchDigits = inputDigits THEN Return(TRUE, One, <<match>>)
             ELSE IF RGe(similarity, AadhaarThreshold)
                  THEN Return(TRUE, similarity, <<match>>)
             ELSE FirstAadhaar(Tail(matches), inputDigits)

\* findAadhaarInText reporting the digits of the match, not the match as it
\* stands in the text
RECURSIVE FirstAadhaarDigits(_, _)
FirstAadhaarDigits(matches, inputDigits) ==
    IF matches = <<>> THEN NotFound
    ELSE LET match == Head(matches)
             matchDigits == extractDigits(match)
             similarity == getSimilarity(inputDigits, matchDigits)
         IN  IF matchDigits = inputDigits THEN Return(TRUE, One, <<matchDigits>>)
             ELSE IF RGe(similarity, AadhaarThreshold)
                  THEN Return(TRUE, similarity, <<matchDigits>>)
             ELSE FirstAadhaarDigits(Tail(matches), inputDigits)

findAadhaarInTextDigits(aadhaarInput, documentText) ==
    FirstAadhaarDigits(Candidates(documentText, aadhaarPatterns),
                       extractDigits(aadhaarInput))

findAadhaarInText(aadhaarInput, documentText) ==
    FirstAadhaar(Candidates(documentText, aadhaarPatterns),
                 extractDigits(aadhaarInput))

(***************************************************************************)
(* isAadhaarDocument                                                       *)
(***************************************************************************)
aadhaarKeywords ==
    << <<"a", "a", "d", "h", "a", "a", "r">>,
       <<"a", "a", "d", "h", "a", "r">>,
       <<"u", "i", "d", "a", "i">>,
       <<"u", "n", "i", "q", "u", "e", " ", "i", "d", "e", "n", "t", "i", "f",
         "i", "c", "a", "t", "i", "o", "n">>,
       <<"g", "o", "v", "e", "r", "n", "m", "e", "n", "t", " ", "o", "f", " ",
         "i", "n", "d", "i", "a">>,
       <<"u092D", "u093E", "u0930", "u0924", " ", "u0938", "u0930", "u0915",
         "u093E", "u0930">>,
       <<"u0906", "u0927", "u093E", "u0930">> >>

PatternBonus == Rat(3, 10)

ClassifierThreshold == Rat(3, 10)

\* isAadhaarDocument returning the sum as it is, without Math.min(confidence, 1.0)
isAadhaarDocumentUnclamped(documentText) ==
    LET normalizedText == normalizeText(documentText)
        keywordMatches ==
            Cardinality({i \in 1..Len(aadhaarKeywords) :
                Includes(normalizedText, normalizeText(aadhaarKeywords[i]))})
        hasAadhaarNumber == Test(documentText, GroupedAadhaar)
        confidence ==
            RAdd(Rat(keywordMatches, Len(aadhaarKeywords)),
                 IF hasAadhaarNumber THEN PatternBonus ELSE Zero)
    IN  [isAadhaar |-> RGt(confidence, ClassifierThreshold),
         confidence |-> confidence]

isAadhaarDocument(documentText) ==
    LET normalizedText == normalizeText(documentText)
        keywordMatches ==
            Cardinality({i \in 1..Len(aadhaarKeywords) :
                Includes(normalizedText, normalizeText(aadhaarKeywords[i]))})
        hasAadhaarNumber == Test(documentText, GroupedAadhaar)
        confidence ==
            RAdd(Rat(keywordMatches, Len(aadhaarKeywords)),
                 IF hasAadhaarNumber THEN PatternBonus ELSE Zero)
    IN  [isAadhaar |-> RGt(confidence, ClassifierThreshold),
         confidence |-> RMin(confidence, One)]

(***************************************************************************)
(* findDateInText                                                          *)
(***************************************************************************)
\* code points of the characters the date separator classes are written with
CharCode(c) == CASE c = "-" -> 45 [] c = "." -> 46 [] c = "/" -> 47

\* A class range lo-hi of a regular expression literal is a SyntaxError
\* ("Range out of order in character class") when lo's code point is above hi's
RangeInOrder(range) == CharCode(range[1]) <= CharCode(range[2])

\* [\/-\.] as written at lines 1253, 1289, 1296, 1302 and 1335: the unescaped
\* hyphen between \/ and \. makes the class the range from "/" to "."
SeparatorRange == <<"/", ".">>

\* the class ranges of each literal of the array `patterns`, in order; the
\* literals of lines 1331-1334 and 1336 escape the hyphen and hold no range
patterns == << {}, {}, {}, {}, {SeparatorRange}, {} >>

RECURSIVE ParseInt(_)
ParseInt(digits) ==
    IF digits = <<>> THEN 0
    ELSE 10 * ParseInt(SubSeq(digits, 1, Len(digits) - 1))
         + ((CHOOSE i \in 1..10 : DigitChars[i] = digits[Len(digits)]) - 1)

Triple(d, m, y) == [kind |-> "return", d |-> d, m |-> m, y |-> y]

\* String.prototype.match without /g: the leftmost match, <<>> for null
FirstMatch(t, p) ==
    LET starts == {i \in 1..Len(t) : MatchItems(t, i, p, 1) > i}
    IN  IF starts = {} THEN <<>>
        ELSE SubSeq(t, Min(starts), MatchItems(t, Min(starts), p, 1) - 1)

\* the runs of digits of a matched date, its capture groups
RECURSIVE DigitGroups(_, _)
DigitGroups(t, acc) ==
    IF t = <<>> THEN IF acc = <<>> THEN <<>> ELSE <<acc>>
    ELSE IF Head(t) \in Digit THEN DigitGroups(Tail(t), Append(acc, Head(t)))
         ELSE (IF acc = <<>> THEN <<>> ELSE <<acc>>) \o DigitGroups(Tail(t), <<>>)

YmdPattern ==
    <<Cls(Digit, 4, 4), Cls({"/", "-"}, 1, 1), Cls(Digit, 1, 2),
      Cls({"/", "-"}, 1, 1), Cls(Digit, 1, 2)>>

\* evaluating a regular expression literal whose class ranges are `ranges`:
\* a RegExp object, or the SyntaxError of a range out of order
RegExpLiteral(ranges) ==
    IF \E r \in ranges : ~RangeInOrder(r) THEN Throw("SyntaxError")
    ELSE [kind |-> "regexp"]

\* Lines 1254-1263 follow an evaluation of the literal of line 1253 that
\* yields a RegExp object; there is none, so the CASE has no arm for it.
parseInput(input) ==
    LET digits == extractDigits(input)
        ymd == DigitGroups(FirstMatch(input, YmdPattern), <<>>)
        dmy == RegExpLiteral({SeparatorRange})
    IN  IF Len(digits) = 8
        THEN Triple(ParseInt(SubSeq(digits, 7, 8)), ParseInt(SubSeq(digits, 5, 6)),
                    ParseInt(SubSeq(digits, 1, 4)))
        ELSE IF ymd # <<>>
             THEN Triple(ParseInt(ymd[3]), ParseInt(ymd[2]), ParseInt(ymd[1]))
        ELSE CASE dmy.kind = "throw" -> dmy

\* The array literal of lines 1330-1337 evaluates its six literals in order
\* and the first that raises ends the call.  The loop of lines 1339-1372 (and
\* with it parseMatch) runs only once all six have yielded RegExp objects;
\* the fifth never does, so the CASE has no arm for it.
findDateInText(dateInput, documentText) ==
    LET input == parseInput(dateInput)
        literals == [i \in 1..Len(patterns) |-> RegExpLiteral(patterns[i])]
        raising == {i \in 1..Len(patterns) : literals[i].kind = "throw"}
    IN  IF input.kind = "throw" THEN input
        ELSE CASE raising # {} -> literals[Min(raising)]

(***************************************************************************)
(* Inputs.  The declared fields are those PersonalInfoForm lets through: a *)
(* name, a 12-digit Aadhaar number, a date of <input type="date"> and a    *)
(* 10-digit mobile number.  An OCR text is a run of at most MaxLines       *)
(* fragments, written the ways an Aadhaar card (or its misreading) shows   *)
(* the declared values, other values, headers and stray characters.        *)
(***************************************************************************)
MaxLines == 2

\* the profiles whose values the texts and cards below print: the first in
\* all its forms, the second as the values of another person
Printed ==
    { [name |-> <<"A", "s", "h", "a", " ", "V", "e", "r", "m", "a">>,
       idNumber |-> <<"1", "2", "3", "4", "5", "6", "7", "8", "9", "0", "1", "2">>,
       dateOfBirth |-> <<"1", "9", "9", "5", "-", "0", "7", "-", "1", "4">>,
       emergencyContact |-> <<"9", "8", "7", "6", "5", "4", "3", "2", "1", "0">>],
      [name |-> <<"R", "a", "v", "i", " ", "K", "u", "m", "a", "r">>,
       idNumber |-> <<"4", "3", "2", "1", "8", "7", "6", "5", "2", "1", "0", "9">>,
       dateOfBirth |-> <<"1", "9", "8", "8", "-", "1", "1", "-", "0", "2">>,
       emergencyContact |-> <<"7", "0", "1", "2", "3", "4", "5", "6", "7", "8">>] }

\* and a profile whose name is two initials
Profiles ==
    Printed
    \cup { [name |-> <<"K", " ", "S">>,
            idNumber |-> <<"9", "8", "7", "6", "5", "4", "3", "2", "1", "0", "9", "8">>,
            dateOfBirth |-> <<"2", "0", "0", "0", "-", "0", "1", "-", "3", "1">>,
            emergencyContact |-> <<"6", "0", "0", "0", "0", "0", "0", "0", "0", "1">>] }

\* a text as printed in capitals
toUpperCase(t) ==
    [i \in 1..Len(t) |->
        IF t[i] \in Range(LowerAlphabet)
        THEN UpperAlphabet[CHOOSE j \in 1..26 : LowerAlphabet[j] = t[i]]
        ELSE t[i]]

Line(t) == t \o <<"\n">>

\* a 12-digit number printed in groups of four
Grouped(id) ==
    SubSeq(id, 1, 4) \o <<" ">> \o SubSeq(id, 5, 8) \o <<" ">> \o SubSeq(id, 9, 12)

\* a number whose last digit was read as the next one
Misread(id) ==
    [i \in 1..Len(id) |->
        IF i = Len(id) THEN DigitChars[((ParseInt(<<id[i]>>) + 1) % 10) + 1]
        ELSE id[i]]

\* a 10-digit number printed as five digits, a hyphen, five digits
FiveDashFive(phone) == SubSeq(phone, 1, 5) \o <<"-">> \o SubSeq(phone, 6, 10)

\* a 10-digit number printed as 3-3-4 with hyphens
ThreeThreeFour(phone) ==
    SubSeq(phone, 1, 3) \o <<"-">> \o SubSeq(phone, 4, 6) \o <<"-">>
    \o SubSeq(phone, 7, 10)

MonthAbbrev ==
    << <<"J", "a", "n">>, <<"F", "e", "b">>, <<"M", "a", "r">>, <<"A", "p", "r">>,
       <<"M", "a", "y">>, <<"J", "u", "n">>, <<"J", "u", "l">>, <<"A", "u", "g">>,
       <<"S", "e", "p">>, <<"O", "c", "t">>, <<"N", "o", "v">>, <<"D", "e", "c">> >>

\* a year-month-day date printed as day, month name, year
DayMonthYear(date) ==
    LET g == DigitGroups(date, <<>>)
    IN  g[3] \o <<" ">> \o MonthAbbrev[ParseInt(g[2])] \o <<" ">> \o g[1]

\* a year-month-day date printed as day/month/year
DaySlashMonth(date) ==
    LET g == DigitGroups(date, <<>>)
    IN  g[3] \o <<"/">> \o g[2] \o <<"/">> \o g[1]

Header ==
    <<"G", "o", "v", "e", "r", "n", "m", "e", "n", "t", " ", "o", "f", " ", "I",
      "n", "d", "i", "a", " ", "U", "I", "D", "A", "I", " ", "A", "a", "d", "h",
      "a", "a", "r", "\n">>

\* the lines and pieces of lines an OCR text is made of
Fragments ==
    LET p == CHOOSE q \in Printed : q.name[1] = "A"
        other == CHOOSE q \in Printed : q.name[1] = "R"
    IN  { Line(Grouped(p.idNumber)), Line(p.idNumber),
          Line(Grouped(Misread(p.idNumber))), Line(p.name),
          Line(toUpperCase(p.name)),
          Line(FiveDashFive(p.emergencyContact)),
          Line(ThreeThreeFour(p.emergencyContact)),
          Line(Misread(p.emergencyContact)),
          Line(<<"D", "O", "B", ":", " ">> \o DayMonthYear(p.dateOfBirth)),
          Line(DaySlashMonth(p.dateOfBirth)) }
        \cup { Line(Grouped(other.idNumber)),
               Line(ThreeThreeFour(other.emergencyContact)),
               Line(DaySlashMonth(other.dateOfBirth)) }
        \cup { Line(q.name) : q \in Profiles }
        \cup { Header, <<"N", "o">>, <<"7">>,
               <<"S", "e", "x", " ", "-", " ", "M", "\n">>,
               <<"u0906", "u0927", "u093E", "u0930", "\n">> }

RECURSIVE TextsOf(_)
TextsOf(n) ==
    IF n = 0 THEN {<<>>}
    ELSE TextsOf(n - 1) \cup {t \o f : t \in TextsOf(n - 1), f \in Fragments}

Texts == TextsOf(MaxLines)

\* The cards a user may upload as the ID document: what is printed on each
Cards ==
    LET p == CHOOSE q \in Printed : q.name[1] = "A"
        other == CHOOSE q \in Printed : q.name[1] = "R"
        nameAndId == Line(p.name) \o Line(Grouped(p.idNumber))
    IN  { <<"M", "a", "l", "e", "\n">>,
          Header \o nameAndId,
          Header \o nameAndId \o Line(DaySlashMonth(p.dateOfBirth))
              \o Line(ThreeThreeFour(p.emergencyContact)),
          Line(Grouped(p.idNumber)),
          Header \o Line(p.name) \o Line(Grouped(other.idNumber)) }

\* a file the user picks: its MIME type and what OCR reads on it
Files ==
    [type : {"image/png"}, content : Cards]
    \cup { [type |-> "application/pdf", content |-> Header] }

IsImage(file) == file.type = "image/png"

\* at most this many validations wait for OCR at the same time
MaxRuns == 2

\* the progress values the OCR logger reports
ProgressValues == {50, 100}

(***************************************************************************)
(* validateDocumentData after `await Tesseract.recognize` has resolved     *)
(* with rawText: the state it sets, the matchers it called, in order, and  *)
(* whether it left through its catch clause.                               *)
(***************************************************************************)
\* an entry of validationResults; a message is kept without the percentage
\* the component formats into it
Entry(found, confidence, message, status) ==
    [found |-> found, confidence |-> confidence, message |-> message,
     status |-> status]

Validation(status, validationResults, ocrText, extractedData) ==
    [status |-> status, validationResults |-> validationResults,
     ocrText |-> ocrText, progress |-> <<>>, extractedData |-> extractedData]

\* the state set by the catch clause
OcrError ==
    Validation("invalid",
               [f \in {"ocr"} |-> Entry(FALSE, Zero, "Unable to process document", "error")],
               <<>>, <<>>)

NameSuccess == Rat(8, 10)

\* a success threshold above the one at which the ID matcher accepts
AadhaarSuccessStrict == Rat(95, 100)

AadhaarSuccess == Rat(9, 10)

DobSuccess == Rat(7, 10)

criticalFields == {"name", "idNumber"}

FieldResults(nameResult, aadhaarResult, dobResult, phoneResult) ==
    [f \in {"name", "idNumber", "dateOfBirth", "phone"} |->
        CASE f = "name" ->
                Entry(nameResult.found, nameResult.confidence,
                      IF nameResult.found THEN "Name found" ELSE "Name not found",
                      IF nameResult.found
                      THEN (IF RGe(nameResult.confidence, NameSuccess)
                            THEN "success" ELSE "warning")
                      ELSE "error")
          [] f = "idNumber" ->
                Entry(aadhaarResult.found, aadhaarResult.confidence,
                      IF aadhaarResult.found THEN "Aadhaar number verified"
                      ELSE "Aadhaar number not found",
                      IF aadhaarResult.found
                      THEN (IF RGe(aadhaarResult.confidence, AadhaarSuccess)
                            THEN "success" ELSE "warning")
                      ELSE "error")
          [] f = "dateOfBirth" ->
                Entry(dobResult.found, dobResult.confidence,
                      IF dobResult.found THEN "Date of birth found"
                      ELSE "Date of birth not clearly visible",
                      IF dobResult.found
                      THEN (IF RGe(dobResult.confidence, DobSuccess)
                            THEN "success" ELSE "warning")
                      ELSE "warning")
          [] f = "phone" ->
                Entry(phoneResult.found, phoneResult.confidence,
                      IF phoneResult.found THEN "Phone number found"
                      ELSE "Phone number not visible",
                      IF phoneResult.found THEN "success" ELSE "warning")]

OverallStatus(validationResults) ==
    LET criticalErrors ==
            \E field \in criticalFields :
                /\ field \in DOMAIN validationResults
                /\ validationResults[field].status = "error"
        hasWarnings ==
            \E field \in DOMAIN validationResults :
                validationResults[field].status = "warning"
    IN  IF criticalErrors THEN "invalid"
        ELSE IF hasWarnings THEN "warning"
        ELSE "valid"

\* a call of a matcher and what it yielded
Called(fn, result) == [fn |-> fn, result |-> result]

Outcome(validation, classification, calls, raised) ==
    [validation |-> validation, classification |-> classification,
     calls |-> calls, raised |-> raised]

\* Reconcile without the return of the document-type check: the matchers run
\* whatever the classifier says
ReconcileUngated(declared, rawText) ==
    LET aadhaarCheck == isAadhaarDocument(rawText)
        nameResult == findNameInText(declared.name, rawText)
        aadhaarResult == findAadhaarInText(declared.idNumber, rawText)
        dobResult == findDateInText(declared.dateOfBirth, rawText)
        phoneResult == findPhoneInText(declared.emergencyContact, rawText)
        validationResults ==
            FieldResults(nameResult, aadhaarResult, dobResult, phoneResult)
        calls ==
            <<Called("findNameInText", nameResult),
              Called("findAadhaarInText", aadhaarResult),
              Called("findDateInText", dobResult),
              Called("findPhoneInText", phoneResult)>>
    IN  IF FALSE
        THEN Outcome(
                 Validation("invalid",
                     [f \in {"documentType"} |->
                         Entry(FALSE, aadhaarCheck.confidence,
                               "Document does not appear to be an Aadhaar card",
                               "error")],
                     <<rawText>>, <<>>),
                 aadhaarCheck, <<>>, FALSE)
        ELSE IF \E i \in 1..4 : calls[i].result.kind = "throw"
             THEN \* the first call that raises ends the try block
                  Outcome(OcrError, aadhaarCheck,
                          SubSeq(calls, 1,
                                 Min({i \in 1..4 : calls[i].result.kind = "throw"})),
                          TRUE)
        ELSE Outcome(
                 Validation(OverallStatus(validationResults), validationResults,
                     <<rawText>>,
                     <<[name |-> nameResult.extracted,
                        idNumber |-> aadhaarResult.extracted,
                        dateOfBirth |-> dobResult.extracted,
                        phone |-> phoneResult.extracted]>>),
                 aadhaarCheck, calls, FALSE)

Reconcile(declared, rawText) ==
    LET aadhaarCheck == isAadhaarDocument(rawText)
        nameResult == findNameInText(declared.name, rawText)
        aadhaarResult == findAadhaarInText(declared.idNumber, rawText)
        dobResult == findDateInText(declared.dateOfBirth, rawText)
        phoneResult == findPhoneInText(declared.emergencyContact, rawText)
        validationResults ==
            FieldResults(nameResult, aadhaarResult, dobResult, phoneResult)
        calls ==
            <<Called("findNameInText", nameResult),
              Called("findAadhaarInText", aadhaarResult),
              Called("findDateInText", dobResult),
              Called("findPhoneInText", phoneResult)>>
    IN  IF ~aadhaarCheck.isAadhaar
        THEN Outcome(
                 Validation("invalid",
                     [f \in {"documentType"} |->
                         Entry(FALSE, aadhaarCheck.confidence,
                               "Document does not appear to be an Aadhaar card",
                               "error")],
                     <<rawText>>, <<>>),
                 aadhaarCheck, <<>>, FALSE)
        ELSE IF \E i \in 1..4 : calls[i].result.kind = "throw"
             THEN \* the first call that raises ends the try block
                  Outcome(OcrError, aadhaarCheck,
                          SubSeq(calls, 1,
                                 Min({i \in 1..4 : calls[i].result.kind = "throw"})),
                          TRUE)
        ELSE Outcome(
                 Validation(OverallStatus(validationResults), validationResults,
                     <<rawText>>,
                     <<[name |-> nameResult.extracted,
                        idNumber |-> aadhaarResult.extracted,
                        dateOfBirth |-> dobResult.extracted,
                        phone |-> phoneResult.extracted]>>),
                 aadhaarCheck, calls, FALSE)

(***************************************************************************)
(* State.                                                                  *)
(*   data, photo, idDocument  the props of DocumentUpload: the declared    *)
(*                 fields and the two uploaded files (<<>> for null)       *)
(*   documentValidation       the component's validation state             *)
(*   inflight      how many validations of each file wait for OCR          *)
(*   lastRun       the run that finished last: its OCR text and what       *)
(*                 Reconcile did (<<>> before any run has finished)        *)
(*   reconciled    Reconcile of the declared fields and each card: fixed   *)
(*                 in a behaviour, computed once by Init                   *)
(*   text, call    an OCR text and the last call of a text-matching        *)
(*                 function on it (the functions on their own)             *)
(*   wizard        the state of KYCVerification: the step shown, the       *)
(*                 digital ID (<<>> for null) and how many of its timers   *)
(*                 have not fired yet                                      *)
(***************************************************************************)
VARIABLES data, photo, idDocument, documentValidation, inflight, lastRun,
          reconciled, text, call, wizard

vars == <<data, photo, idDocument, documentValidation, inflight, lastRun,
          reconciled, text, call, wizard>>

component == <<photo, idDocument, documentValidation, inflight, lastRun>>

NoCall == [fn |-> "none"]

Pending ==
    [status |-> "pending", validationResults |-> <<>>, ocrText |-> <<>>,
     progress |-> <<>>, extractedData |-> <<>>]

\* the state of KYCVerification
Wizard(currentStep, digitalId, timers) ==
    [currentStep |-> currentStep, digitalId |-> digitalId, timers |-> timers]

\* DocumentUpload as the wizard mounts it in its documents step
Mounted ==
    /\ photo = <<>>
    /\ idDocument = <<>>
    /\ documentValidation = Pending
    /\ inflight = [f \in Files |-> 0]
    /\ lastRun = <<>>
    /\ wizard = Wizard("documents", <<>>, 0)

MatcherInit ==
    /\ data \in Profiles
    /\ text \in Texts
    /\ call = NoCall
    /\ reconciled = <<>>
    /\ Mounted

CallFindName ==
    /\ call = NoCall
    /\ call' = [fn |-> "findNameInText", result |-> findNameInText(data.name, text)]
    /\ UNCHANGED <<data, text, reconciled, component, wizard>>

CallFindAadhaar ==
    /\ call = NoCall
    /\ call' = [fn |-> "findAadhaarInText",
                result |-> findAadhaarInText(data.idNumber, text)]
    /\ UNCHANGED <<data, text, reconciled, component, wizard>>

CallFindDate ==
    /\ call = NoCall
    /\ call' = [fn |-> "findDateInText",
                result |-> findDateInText(data.dateOfBirth, text)]
    /\ UNCHANGED <<data, text, reconciled, component, wizard>>

CallFindPhone ==
    /\ call = NoCall
    /\ call' = [fn |-> "findPhoneInText",
                result |-> findPhoneInText(data.emergencyContact, text)]
    /\ UNCHANGED <<data, text, reconciled, component, wizard>>

CallIsAadhaar ==
    /\ call = NoCall
    /\ call' = [fn |-> "isAadhaarDocument", result |-> isAadhaarDocument(text)]
    /\ UNCHANGED <<data, text, reconciled, component, wizard>>

MatcherNext ==
    \/ CallFindName
    \/ CallFindAadhaar
    \/ CallFindDate
    \/ CallFindPhone
    \/ CallIsAadhaar

\* the text-matching functions applied to every declared profile and OCR text
MatcherSpec == MatcherInit /\ [][MatcherNext]_vars

(***************************************************************************)
(* normalizeText and getSimilarity on their own.                           *)
(***************************************************************************)
\* strings of one character, of punctuation only and with an underscore, next
\* to the OCR texts
Strings ==
    Texts \cup { <<"A">>, <<"-">>, <<"-", " ", "/">>, <<" ", ":", " ">>,
                 <<"I", "D", "_", "N", "o">> }

TextInit ==
    /\ data \in Profiles
    /\ text \in Strings
    /\ call = NoCall
    /\ reconciled = <<>>
    /\ Mounted

CallNormalizeText ==
    /\ call = NoCall
    /\ call' = [fn |-> "normalizeText", result |-> normalizeText(text)]
    /\ UNCHANGED <<data, text, reconciled, component, wizard>>

CallGetSimilarity(str1, str2) ==
    /\ call = NoCall
    /\ call' = [fn |-> "getSimilarity", str1 |-> str1, str2 |-> str2,
                result |-> getSimilarity(str1, str2)]
    /\ UNCHANGED <<data, text, reconciled, component, wizard>>

TextNext ==
    \/ CallNormalizeText
    \/ \E str1 \in {text, data.name, data.idNumber} : CallGetSimilarity(str1, text)

\* normalizeText and getSimilarity applied to every string
TextSpec == TextInit /\ [][TextNext]_vars

(***************************************************************************)
(* The DocumentUpload component.                                           *)
(***************************************************************************)
Init ==
    /\ data \in Profiles
    /\ text = <<>>
    /\ call = NoCall
    /\ reconciled = [c \in Cards |-> Reconcile(data, c)]
    /\ Mounted

RECURSIVE SumOver(_, _)
SumOver(S, count) ==
    IF S = {} THEN 0
    ELSE LET f == CHOOSE g \in S : TRUE
         IN  count[f] + SumOver(S \ {f}, count)

\* validateDocumentData up to its await: the state is reset and OCR is started
StartValidation(file) ==
    /\ SumOver(Files, inflight) < MaxRuns
    /\ IF ~IsImage(file)
       THEN /\ documentValidation' =
                   Validation("invalid",
                       [f \in {"fileType"} |->
                           Entry(FALSE, Zero, "Document must be an image", "error")],
                       <<>>, <<>>)
            /\ UNCHANGED inflight
       ELSE /\ documentValidation' = [Pending EXCEPT !.status = "validating",
                                                     !.progress = <<0>>]
            /\ inflight' = [inflight EXCEPT ![file] = @ + 1]

\* handleFileUpload('photo')
UploadPhoto(file) ==
    /\ IF IsImage(file) THEN photo' = <<file.type>> ELSE UNCHANGED photo
    /\ UNCHANGED <<data, idDocument, documentValidation, inflight, lastRun,
                   reconciled, text, call, wizard>>

\* handleFileUpload('idDocument')
UploadIdDocument(file) ==
    /\ IF IsImage(file)
       THEN /\ idDocument' = <<file>>
            /\ StartValidation(file)
       ELSE UNCHANGED <<idDocument, documentValidation, inflight>>
    /\ UNCHANGED <<data, photo, lastRun, reconciled, text, call, wizard>>

\* the Retry button, shown with the results of an invalid validation
retryValidation ==
    /\ documentValidation.status = "invalid"
    /\ documentValidation.validationResults # <<>>
    /\ idDocument # <<>>
    /\ StartValidation(idDocument[1])
    /\ UNCHANGED <<data, photo, idDocument, lastRun, reconciled, text, call, wizard>>

\* the logger callback of Tesseract.recognize
OcrProgress(file, p) ==
    /\ inflight[file] > 0
    /\ documentValidation' = [documentValidation EXCEPT !.progress = <<p>>]
    /\ UNCHANGED <<data, photo, idDocument, inflight, lastRun, reconciled, text,
                   call, wizard>>

\* OcrResolve with state carried from one run to the next: once a run has
\* rejected a text, the next run reports that run's verdict again
OcrResolveCarrying(file) ==
    /\ inflight[file] > 0
    /\ LET carried == /\ lastRun # <<>>
                      /\ lastRun[1].classification # <<>>
                      /\ ~lastRun[1].classification.isAadhaar
           outcome == IF carried THEN reconciled[lastRun[1].rawText]
                      ELSE reconciled[file.content]
       IN  /\ documentValidation' = outcome.validation
           /\ lastRun' = <<[rawText |-> file.content,
                            classification |-> outcome.classification,
                            calls |-> outcome.calls,
                            raised |-> outcome.raised]>>
    /\ inflight' = [inflight EXCEPT ![file] = @ - 1]
    /\ UNCHANGED <<data, photo, idDocument, reconciled, text, call, wizard>>

\* Tesseract.recognize resolves: the rest of validateDocumentData runs
OcrResolve(file) ==
    /\ inflight[file] > 0
    /\ LET outcome == reconciled[file.content]
       IN  /\ documentValidation' = outcome.validation
           /\ lastRun' = <<[rawText |-> file.content,
                            classification |-> outcome.classification,
                            calls |-> outcome.calls,
                            raised |-> outcome.raised]>>
    /\ inflight' = [inflight EXCEPT ![file] = @ - 1]
    /\ UNCHANGED <<data, photo, idDocument, reconciled, text, call, wizard>>

\* OcrReject with a catch clause that resets the state to pending instead of
\* reporting the failure
OcrRejectReset(file) ==
    /\ inflight[file] > 0
    /\ documentValidation' = Pending
    /\ lastRun' = <<[rawText |-> <<>>, classification |-> <<>>,
                     calls |-> <<>>, raised |-> TRUE]>>
    /\ inflight' = [inflight EXCEPT ![file] = @ - 1]
    /\ UNCHANGED <<data, photo, idDocument, reconciled, text, call, wizard>>

\* OcrReject without a catch clause: the rejection ends the run and the state
\* stays as it was
OcrRejectUnhandled(file) ==
    /\ inflight[file] > 0
    /\ lastRun' = <<[rawText |-> <<>>, classification |-> <<>>,
                     calls |-> <<>>, raised |-> TRUE]>>
    /\ inflight' = [inflight EXCEPT ![file] = @ - 1]
    /\ UNCHANGED <<data, photo, idDocument, documentValidation, reconciled,
                   text, call, wizard>>

\* Tesseract.recognize rejects: the catch clause runs
OcrReject(file) ==
    /\ inflight[file] > 0
    /\ documentValidation' = OcrError
    /\ lastRun' = <<[rawText |-> <<>>, classification |-> <<>>,
                     calls |-> <<>>, raised |-> TRUE]>>
    /\ inflight' = [inflight EXCEPT ![file] = @ - 1]
    /\ UNCHANGED <<data, photo, idDocument, reconciled, text, call, wizard>>

\* canProceed without the test of documentValidation.status
canProceedAnyStatus ==
    /\ photo # <<>>
    /\ idDocument # <<>>

canProceed ==
    /\ photo # <<>>
    /\ idDocument # <<>>
    /\ documentValidation.status \in {"valid", "warning"}

\* the Continue button: disabled={!canProceed}
ContinueEnabled == canProceed

\* the Retry button is shown and retryValidation has a document to run on
RetryAvailable ==
    /\ documentValidation.validationResults # <<>>
    /\ documentValidation.status = "invalid"
    /\ idDocument # <<>>

Next ==
    \/ \E file \in Files : UploadPhoto(file)
    \/ \E file \in Files : UploadIdDocument(file)
    \/ retryValidation
    \/ \E file \in Files, p \in ProgressValues : OcrProgress(file, p)
    \/ \E file \in Files : OcrResolve(file)
    \/ \E file \in Files : OcrReject(file)

Spec == Init /\ [][Next]_vars

\* the component with an OCR engine that ends every call it was given: the
\* promise of each Tesseract.recognize is settled, resolved or rejected
FairSpec ==
    /\ Spec
    /\ \A file \in Files : WF_vars(OcrResolve(file) \/ OcrReject(file))

(***************************************************************************)
(* The wizard KYCVerification on its own.  Its steps call onUpdate, onNext *)
(* and onBack; the wizard does not look at what a step has validated.      *)
(* The declared fields are those the personal step hands over.             *)
(***************************************************************************)
stepOrder == <<"personal", "documents", "review", "processing", "complete">>

\* stepOrder.indexOf(step), counted from 1
IndexOf(step) == CHOOSE i \in 1..Len(stepOrder) : stepOrder[i] = step

\* the record setTimeout's callback builds; its random hashes and dates are
\* left out
mockDigitalId == [userHash |-> "0x", transactionHash |-> "0x"]

WizardInit ==
    /\ data \in Profiles
    /\ text = <<>>
    /\ call = NoCall
    /\ reconciled = <<>>
    /\ photo = <<>>
    /\ idDocument = <<>>
    /\ documentValidation = Pending
    /\ inflight = [f \in Files |-> 0]
    /\ lastRun = <<>>
    /\ wizard = Wizard("personal", <<>>, 0)

handleNext ==
    LET currentIndex == IndexOf(wizard.currentStep)
    IN  IF currentIndex < Len(stepOrder)
        THEN IF wizard.currentStep = "review"
             THEN wizard' = [wizard EXCEPT !.timers = @ + 1,
                                           !.currentStep = "processing"]
             ELSE wizard' = [wizard EXCEPT !.currentStep = stepOrder[currentIndex + 1]]
        ELSE UNCHANGED wizard

handleBack ==
    LET currentIndex == IndexOf(wizard.currentStep)
    IN  IF currentIndex > 1
        THEN wizard' = [wizard EXCEPT !.currentStep = stepOrder[currentIndex - 1]]
        ELSE UNCHANGED wizard

\* PersonalInfoForm: handleSubmit with a form that validates
PersonalSubmit ==
    /\ wizard.currentStep = "personal"
    /\ handleNext
    /\ UNCHANGED <<data, photo, idDocument, documentValidation, inflight,
                   lastRun, reconciled, text, call>>

\* updateKycData({photo: file}), called by the documents step
UpdatePhoto(file) ==
    /\ wizard.currentStep = "documents"
    /\ IsImage(file)
    /\ photo' = <<file.type>>
    /\ UNCHANGED <<data, idDocument, documentValidation, inflight, lastRun,
                   reconciled, text, call, wizard>>

\* updateKycData({idDocument: file}), called by the documents step
UpdateIdDocument(file) ==
    /\ wizard.currentStep = "documents"
    /\ IsImage(file)
    /\ idDocument' = <<file>>
    /\ UNCHANGED <<data, photo, documentValidation, inflight, lastRun,
                   reconciled, text, call, wizard>>

\* onNext of the documents step
DocumentsNext ==
    /\ wizard.currentStep = "documents"
    /\ handleNext
    /\ UNCHANGED <<data, photo, idDocument, documentValidation, inflight,
                   lastRun, reconciled, text, call>>

\* onBack of the documents step and of the review step
StepBack ==
    /\ wizard.currentStep \in {"documents", "review"}
    /\ handleBack
    /\ UNCHANGED <<data, photo, idDocument, documentValidation, inflight,
                   lastRun, reconciled, text, call>>

\* ReviewSubmission: the files among the fields isComplete and handleSubmit
\* require (the others were required by the personal step)
isComplete ==
    /\ photo # <<>>
    /\ idDocument # <<>>

\* ReviewSubmission: the Submit button, disabled={!isComplete}, and handleSubmit
ReviewSubmit ==
    /\ wizard.currentStep = "review"
    /\ isComplete
    /\ handleNext
    /\ UNCHANGED <<data, photo, idDocument, documentValidation, inflight,
                   lastRun, reconciled, text, call>>

\* the callback of setTimeout that sets the step without setDigitalId
TimerFiresStepOnly ==
    /\ wizard.timers > 0
    /\ wizard' = [wizard EXCEPT !.currentStep = "complete", !.timers = @ - 1]
    /\ UNCHANGED <<data, photo, idDocument, documentValidation, inflight,
                   lastRun, reconciled, text, call>>

\* the callback of setTimeout: setDigitalId and setCurrentStep('complete')
TimerFires ==
    /\ wizard.timers > 0
    /\ wizard' = [wizard EXCEPT !.digitalId = <<mockDigitalId>>,
                                !.currentStep = "complete",
                                !.timers = @ - 1]
    /\ UNCHANGED <<data, photo, idDocument, documentValidation, inflight,
                   lastRun, reconciled, text, call>>

WizardNext ==
    \/ PersonalSubmit
    \/ \E file \in Files : UpdatePhoto(file)
    \/ \E file \in Files : UpdateIdDocument(file)
    \/ DocumentsNext
    \/ StepBack
    \/ ReviewSubmit
    \/ TimerFires

WizardSpec == WizardInit /\ [][WizardNext]_vars

(***************************************************************************)
(* Properties of the text-matching functions (under MatcherSpec).          *)
(***************************************************************************)
\* C1: whenever the declared Aadhaar number's twelve digits stand in the OCR
\* text, contiguous or in groups of four, findAadhaarInText returns found
\* with confidence 1, whatever else is in the text.
C1_ExactDigitMatch ==
    (/\ call.fn = "findAadhaarInText"
     /\ \/ Includes(text, data.idNumber)
        \/ Includes(text, Grouped(data.idNumber)))
    => /\ call.result.found
       /\ REq(call.result.confidence, One)

\* C2: whenever the OCR text holds the declared phone number written as five
\* digits, a hyphen, five digits, findPhoneInText returns found with
\* confidence 1.
C2_PhoneFiveDashFive ==
    (/\ call.fn = "findPhoneInText"
     /\ Includes(text, FiveDashFive(data.emergencyContact)))
    => /\ call.result.found
       /\ REq(call.result.confidence, One)

\* C3: whenever the OCR text holds the declared date written as day, month
\* abbreviation, year, findDateInText returns found with confidence >= 0.86.
C3_DateDayMonthYear ==
    (/\ call.fn = "findDateInText"
     /\ Includes(text, DayMonthYear(data.dateOfBirth)))
    => /\ call.result.kind = "return"
       /\ call.result.found
       /\ RGe(call.result.confidence, Rat(86, 100))

\* C4: on the empty text isAadhaarDocument returns isAadhaar = false and
\* confidence 0.
C4_ClassifierEmptyText ==
    (call.fn = "isAadhaarDocument" /\ text = <<>>)
    => /\ ~call.result.isAadhaar
       /\ REq(call.result.confidence, Zero)

\* the keywords of the list that occur in the normalized text
KeywordsPresent(t) ==
    {i \in 1..Len(aadhaarKeywords) : Includes(normalizeText(t), aadhaarKeywords[i])}

\* C5: the classifier's confidence is (keywords present in the normalized
\* text) / 7, plus 0.3 with the 4-4-4 digit pattern, capped at 1, and
\* isAadhaar holds exactly when that value is above 0.3.
C5_ClassifierFormula ==
    call.fn = "isAadhaarDocument"
    => LET value ==
               RMin(RAdd(Rat(Cardinality(KeywordsPresent(text)), 7),
                         IF Test(text, GroupedAadhaar) THEN Rat(3, 10) ELSE Zero),
                    One)
       IN  /\ REq(call.result.confidence, value)
           /\ call.result.isAadhaar <=> RGt(value, Rat(3, 10))

\* C6: the classifier's confidence lies in [0, 1] for every text.
C6_ClassifierBounded ==
    call.fn = "isAadhaarDocument"
    => /\ RGe(call.result.confidence, Zero)
       /\ RGe(One, call.result.confidence)

\* C6 witness: the classifier ran on a text whose keywords and digit pattern
\* add up to more than 1, and returned 1.
C6_Capped ==
    /\ call.fn = "isAadhaarDocument"
    /\ Test(text, GroupedAadhaar)
    /\ Cardinality(KeywordsPresent(text)) >= 3
    /\ REq(call.result.confidence, One)

(***************************************************************************)
(* Properties of the component (under Spec).                               *)
(***************************************************************************)
\* the validation state is the verdict of the run that finished last
Settled ==
    /\ lastRun # <<>>
    /\ documentValidation.status \notin {"pending", "validating"}

\* the run that finished last read a text and the classifier accepted it
Classified ==
    /\ Settled
    /\ lastRun[1].classification # <<>>
    /\ lastRun[1].classification.isAadhaar

\* what matcher fn reported in the run that finished last: found or not;
\* a matcher that was not called or raised reported nothing
Reported(fn, found) ==
    \E i \in 1..Len(lastRun[1].calls) :
        /\ lastRun[1].calls[i].fn = fn
        /\ lastRun[1].calls[i].result.kind = "return"
        /\ lastRun[1].calls[i].result.found = found

ReportedFull(fn) ==
    \E i \in 1..Len(lastRun[1].calls) :
        /\ lastRun[1].calls[i].fn = fn
        /\ lastRun[1].calls[i].result.kind = "return"
        /\ lastRun[1].calls[i].result.found
        /\ REq(lastRun[1].calls[i].result.confidence, One)

Matchers ==
    {"findNameInText", "findAadhaarInText", "findDateInText", "findPhoneInText"}

\* C7: after the classifier has accepted the text and neither the name nor
\* the ID number is not-found, the status is warning if some field is not
\* found or found below confidence 1, and valid otherwise.
C7_WarningOrValid ==
    (/\ Classified
     /\ ~Reported("findNameInText", FALSE)
     /\ ~Reported("findAadhaarInText", FALSE))
    => documentValidation.status =
           IF \A fn \in Matchers : ReportedFull(fn) THEN "valid" ELSE "warning"

\* C8: after the classifier has accepted the text, the status is invalid
\* exactly when the name matcher or the ID matcher reported not found.
C8_InvalidIffCritical ==
    Classified
    => (documentValidation.status = "invalid"
        <=> \/ Reported("findNameInText", FALSE)
            \/ Reported("findAadhaarInText", FALSE))

\* C9: when the classifier rejects the OCR text, the status is invalid, the
\* only entry of the results is documentType, and no matcher was called.
C9_ClassificationGate ==
    (/\ Settled
     /\ lastRun[1].classification # <<>>
     /\ ~lastRun[1].classification.isAadhaar)
    => /\ documentValidation.status = "invalid"
       /\ DOMAIN documentValidation.validationResults = {"documentType"}
       /\ lastRun[1].calls = <<>>

\* C9 witness: a run has ended on a text the classifier rejected.
C9_Rejected ==
    /\ Settled
    /\ lastRun[1].classification # <<>>
    /\ ~lastRun[1].classification.isAadhaar
    /\ documentValidation.ocrText = <<lastRun[1].rawText>>

\* C10: when the OCR text holds the declared name and ID number and neither
\* the declared phone number nor the date of birth in any form, the status
\* is warning, and with both files uploaded the user may proceed.
C10_AdvisoryDegradation ==
    (/\ Settled
     /\ lastRun[1].classification # <<>>
     /\ Includes(lastRun[1].rawText, data.name)
     /\ Includes(lastRun[1].rawText, Grouped(data.idNumber))
     /\ ~Includes(extractDigits(lastRun[1].rawText), data.emergencyContact)
     /\ ~Includes(extractDigits(lastRun[1].rawText),
                  SubSeq(extractDigits(data.dateOfBirth), 1, 4)))
    => /\ documentValidation.status = "warning"
       /\ (photo # <<>> /\ idDocument # <<>>) => canProceed

UsableParts(name) ==
    {part \in Range(Split(normalizeText(name), 1)) : Len(part) > 1}

\* C12 as stated: whenever the normalized OCR text contains the normalized
\* declared name, findNameInText returns found with confidence 1.
C12_NameVerbatim ==
    (/\ call.fn = "findNameInText"
     /\ Includes(normalizeText(text), normalizeText(data.name)))
    => /\ call.result.found
       /\ REq(call.result.confidence, One)

\* C12 amended: whenever the declared name has a word of two or more
\* characters and the normalized OCR text contains the normalized name,
\* findNameInText returns found with confidence 1.
C12_NameVerbatimUsable ==
    (/\ call.fn = "findNameInText"
     /\ UsableParts(data.name) # {}
     /\ Includes(normalizeText(text), normalizeText(data.name)))
    => /\ call.result.found
       /\ REq(call.result.confidence, One)

\* C12 witness: the name stands in the text in capitals only, and is found
\* with confidence 1.
C12_Capitals ==
    /\ call.fn = "findNameInText"
    /\ UsableParts(data.name) # {}
    /\ Includes(text, toUpperCase(data.name))
    /\ ~Includes(text, data.name)
    /\ call.result.found
    /\ REq(call.result.confidence, One)

\* the candidates findAadhaarInText sees in a text: the matches of its patterns
AadhaarCandidates(t) == Candidates(t, aadhaarPatterns)

\* C13: when the declared Aadhaar number, printed in groups of four, is a
\* candidate in the OCR text and the only one, findAadhaarInText returns found
\* with confidence 1 and extracts the number as printed, spaces included.
C13_ExtractsAsPrinted ==
    call.fn = "findAadhaarInText"
    => LET candidates == AadhaarCandidates(text)
       IN  (/\ candidates # <<>>
            /\ \A i \in 1..Len(candidates) :
                   candidates[i] = Grouped(data.idNumber))
           => /\ call.result.found
              /\ REq(call.result.confidence, One)
              /\ call.result.extracted = <<Grouped(data.idNumber)>>

\* C13 witness: a text with a header and the declared number in groups, from
\* which the number was extracted with its spaces.
C13_GroupedExtracted ==
    /\ call.fn = "findAadhaarInText"
    /\ Includes(text, Header)
    /\ Len(AadhaarCandidates(text)) = 1
    /\ call.result.found
    /\ call.result.extracted = <<Grouped(data.idNumber)>>

\* C14: findAadhaarInText never returns a confidence of 0.9 or more without
\* found, and, when no candidate has the declared digits, never returns
\* found with a confidence below 0.9.
C14_ThresholdMonotone ==
    call.fn = "findAadhaarInText"
    => LET candidates == AadhaarCandidates(text)
       IN  /\ RGe(call.result.confidence, Rat(9, 10)) => call.result.found
           /\ (/\ ~RGe(call.result.confidence, Rat(9, 10))
               /\ \A i \in 1..Len(candidates) :
                      extractDigits(candidates[i]) # data.idNumber)
              => ~call.result.found

\* C14 witness: a candidate that is not the declared number was accepted on
\* its similarity, at a confidence of at least 0.9 and below 1.
C14_AcceptedOnSimilarity ==
    /\ call.fn = "findAadhaarInText"
    /\ call.result.found
    /\ RGe(call.result.confidence, Rat(9, 10))
    /\ ~RGe(call.result.confidence, One)
    /\ extractDigits(call.result.extracted[1]) # data.idNumber

\* C15: in a verdict on a text the classifier accepted, the dateOfBirth and
\* phone entries never have severity error, a name or idNumber entry has it
\* only when not found, and a phone number that is not in the text is
\* reported by a phone entry of severity warning.
C15_SeverityMapping ==
    Classified
    => LET results == documentValidation.validationResults
       IN  /\ \A f \in {"dateOfBirth", "phone"} \cap DOMAIN results :
                  results[f].status # "error"
           /\ \A f \in {"name", "idNumber"} \cap DOMAIN results :
                  results[f].status = "error" => ~results[f].found
           /\ ~findPhoneInText(data.emergencyContact, lastRun[1].rawText).found
              => /\ "phone" \in DOMAIN results
                 /\ results["phone"].status = "warning"

\* C16: every call of the classifier or of a field matcher returns a result
\* value; none raises.
C16_NoThrow ==
    /\ call.fn \in Matchers => call.result.kind = "return"
    /\ call.fn = "isAadhaarDocument"
       => DOMAIN call.result = {"isAadhaar", "confidence"}

C18_NormalizeIdempotent ==
    call.fn = "normalizeText" => normalizeText(call.result) = call.result

\* C18 witness: a text with capitals, punctuation between spaces and a line
\* break at its end was normalized to something else.
C18_Normalized ==
    /\ call.fn = "normalizeText"
    /\ Includes(text, <<" ", "-", " ">>)
    /\ text # <<>> /\ text[Len(text)] = "\n"
    /\ toLowerCase(text) # text
    /\ call.result # text
    /\ call.result # <<>>

\* C19: getSimilarity is symmetric.
C19_SimilaritySymmetric ==
    call.fn = "getSimilarity"
    => REq(call.result, getSimilarity(call.str2, call.str1))

\* C19 witness: two different strings whose similarity lies strictly between
\* 0 and 1.
C19_PartlySimilar ==
    /\ call.fn = "getSimilarity"
    /\ call.str1 # call.str2
    /\ RGt(call.result, Zero)
    /\ RGt(One, call.result)

AllFinished == SumOver(Files, inflight) = 0

\* C21: the run started last is the one on the current ID document (an
\* upload replaces the document, a retry runs on it). Once every run has
\* finished and the run that finished last read a text, the status, the
\* per-field results and the OCR text are those computed for the current ID
\* document, and that text is the text of the current document.
C21_StaleNeverWins ==
    (/\ idDocument # <<>>
     /\ AllFinished
     /\ Settled
     /\ lastRun[1].classification # <<>>)
    => LET latest == reconciled[idDocument[1].content].validation
       IN  /\ lastRun[1].rawText = idDocument[1].content
           /\ documentValidation.status = latest.status
           /\ documentValidation.validationResults = latest.validationResults
           /\ documentValidation.ocrText = latest.ocrText

(***************************************************************************)
(* The character classes of normalizeText (under TextSpec).                *)
(***************************************************************************)
\* the Unicode letters (general category L) among the characters of the
\* texts: the ASCII letters and the Devanagari consonants and vowels of the
\* keywords; the vowel sign U+093E is a mark, not a letter
UnicodeLetter ==
    Range(LowerAlphabet) \cup Range(UpperAlphabet)
    \cup {"u0906", "u0915", "u0924", "u0927", "u092D", "u0930", "u0938"}

\* C22: normalizeText lower-cases the text and deletes exactly the characters
\* that are not a Unicode letter, a digit or whitespace (so it keeps
\* Devanagari letters and deletes the underscore), then collapses every run
\* of whitespace to one space and trims the ends.
C22_NormalizerClasses ==
    call.fn = "normalizeText"
    => call.result =
           Trim(CollapseSpaces(Filter(toLowerCase(text),
                                      UnicodeLetter \cup Digit \cup Space)))

(***************************************************************************)
(* Properties of the date and phone matchers (under MatcherSpec).          *)
(***************************************************************************)
\* C23: the declared date written day/month/year is parsed into the same
\* day, month and year as the same date written year-month-day, and
\* findDateInText gives the same result for both spellings on every text.
C23_FormatIndependent ==
    call.fn = "findDateInText"
    => /\ parseInput(DaySlashMonth(data.dateOfBirth)) = parseInput(data.dateOfBirth)
       /\ findDateInText(DaySlashMonth(data.dateOfBirth), text) = call.result

\* C24: whenever the OCR text holds the declared date written as
\* day/month/year in digits, findDateInText returns found with confidence 1,
\* whatever other dates stand before it in the text.
C24_DateBestMatch ==
    (/\ call.fn = "findDateInText"
     /\ Includes(text, DaySlashMonth(data.dateOfBirth)))
    => /\ call.result.kind = "return"
       /\ call.result.found
       /\ REq(call.result.confidence, One)

\* the score the claim gives a candidate date against the declared date, both
\* written year-month-day: 0.34 for the day, 0.33 for the month, 0.33 for
\* the year
ComponentScore(declared, candidate) ==
    LET a == DigitGroups(declared, <<>>)
        b == DigitGroups(candidate, <<>>)
    IN  RAdd(RAdd(IF ParseInt(a[3]) = ParseInt(b[3]) THEN Rat(34, 100) ELSE Zero,
                  IF ParseInt(a[2]) = ParseInt(b[2]) THEN Rat(33, 100) ELSE Zero),
             IF ParseInt(a[1]) = ParseInt(b[1]) THEN Rat(33, 100) ELSE Zero)

\* C25: when the one date candidate of the OCR text is a day/month/year date,
\* findDateInText returns by its component score: found with confidence
\* min(1, score + 0.2) at a score of 0.66 or more, found with the score as
\* confidence at a score from 0.34 up to 0.66, and below 0.34 found only
\* with a confidence (the digit similarity) of 0.6 or more.
C25_ComponentScoring ==
    \A q \in Printed :
        (/\ call.fn = "findDateInText"
         /\ text = Line(DaySlashMonth(q.dateOfBirth)))
        => LET score == ComponentScore(data.dateOfBirth, q.dateOfBirth)
           IN  /\ call.result.kind = "return"
               /\ RGe(score, Rat(66, 100))
                  => /\ call.result.found
                     /\ REq(call.result.confidence,
                            RMin(One, RAdd(score, Rat(20, 100))))
               /\ (RGe(score, Rat(34, 100)) /\ ~RGe(score, Rat(66, 100)))
                  => /\ call.result.found
                     /\ REq(call.result.confidence, score)
               /\ (~RGe(score, Rat(34, 100)) /\ call.result.found)
                  => RGe(call.result.confidence, Rat(6, 10))

\* the last ten digits of the i-th candidate findPhoneInText sees in a text
PhoneWindow(t, i) == SliceLast(extractDigits(Candidates(t, phonePatterns)[i]), 10)

\* C26: findPhoneInText returns found with confidence 1 whenever some
\* candidate has the declared number's last ten digits; otherwise it returns
\* found only at a confidence of 0.8 or more; and when no candidate is equal
\* or similar at 0.8, it returns not found, confidence 0, nothing extracted.
C26_PhoneDecisionRule ==
    call.fn = "findPhoneInText"
    => LET last10Digits == SliceLast(extractDigits(data.emergencyContact), 10)
           n == Len(Candidates(text, phonePatterns))
           exact == \E i \in 1..n : PhoneWindow(text, i) = last10Digits
           similar ==
               \E i \in 1..n :
                   RGe(getSimilarity(last10Digits, PhoneWindow(text, i)),
                       PhoneThreshold)
       IN  /\ exact => (call.result.found /\ REq(call.result.confidence, One))
           /\ (~exact /\ call.result.found)
              => RGe(call.result.confidence, Rat(8, 10))
           /\ (~exact /\ ~similar) => call.result = NotFound

(***************************************************************************)
(* Failing and ending runs of the component (under Spec).                  *)
(***************************************************************************)
\* the run that finished last failed in OCR and no run was started since
OcrFailed ==
    /\ lastRun # <<>>
    /\ lastRun[1].classification = <<>>
    /\ documentValidation.status # "validating"

\* C27: when the OCR call of a run fails, the run ends with status invalid
\* and the single entry ocr: no matcher was called, there is no entry for
\* name, idNumber, dateOfBirth or phone, the Continue button is disabled, and
\* the Retry button is offered for the document already uploaded.
C27_OcrFailureOutcome ==
    OcrFailed
    => /\ documentValidation.status = "invalid"
       /\ DOMAIN documentValidation.validationResults = {"ocr"}
       /\ lastRun[1].calls = <<>>
       /\ documentValidation.extractedData = <<>>
       /\ ~ContinueEnabled
       /\ RetryAvailable

\* C27 witness: with the photo and the ID document uploaded, the OCR of the
\* document failed; the failure is shown and a retry is offered.
C27_FailureShown ==
    /\ OcrFailed
    /\ photo # <<>>
    /\ "ocr" \in DOMAIN documentValidation.validationResults
    /\ RetryAvailable
    /\ ~ContinueEnabled

\* C28 (under FairSpec): a validation that has set the status to validating
\* is followed by a status of valid, warning or invalid, and a status other
\* than pending is never followed by pending.
C28_ValidationTerminates ==
    /\ (documentValidation.status = "validating")
           ~> (documentValidation.status \in {"valid", "warning", "invalid"})
    /\ [][documentValidation.status # "pending"
              => documentValidation'.status # "pending"]_vars

\* C28 witness: the OCR of the run started last has resolved, no run is
\* waiting any more and the status has left validating.
C28_AllEnded ==
    /\ lastRun # <<>>
    /\ AllFinished
    /\ idDocument # <<>>
    /\ lastRun[1].classification # <<>>
    /\ lastRun[1].rawText = idDocument[1].content
    /\ documentValidation.status \in {"valid", "warning", "invalid"}

(***************************************************************************)
(* The idNumber entry (under MatcherSpec).                                 *)
(***************************************************************************)
\* the idNumber entry validateDocumentData builds from a result of
\* findAadhaarInText
IdNumberEntry(aadhaarResult) ==
    FieldResults(NotFound, aadhaarResult, NotFound, NotFound)["idNumber"]

\* C29: the idNumber entry built from a result of findAadhaarInText has
\* severity success when the matcher reports found and error when it does
\* not; it never has severity warning.
C29_IdNeverWarning ==
    call.fn = "findAadhaarInText"
    => IdNumberEntry(call.result).status =
           IF call.result.found THEN "success" ELSE "error"

\* C29 witness: a number accepted on its similarity, below confidence 1,
\* whose entry has severity success.
C29_SimilarIsSuccess ==
    /\ call.fn = "findAadhaarInText"
    /\ call.result.found
    /\ ~RGe(call.result.confidence, One)
    /\ IdNumberEntry(call.result).status = "success"

(***************************************************************************)
(* The wizard (under WizardSpec).                                          *)
(***************************************************************************)
\* C30: in the complete step the digital ID is set; the complete step is
\* entered only from processing; and processing is entered only from review,
\* by a submit of a complete application that starts the timer.
C30_WizardIssuance ==
    /\ [](wizard.currentStep = "complete" => wizard.digitalId # <<>>)
    /\ [][(wizard'.currentStep = "complete" /\ wizard.currentStep # "complete")
              => wizard.currentStep = "processing"]_vars
    /\ [][(wizard'.currentStep = "processing" /\ wizard.currentStep # "processing")
              => /\ wizard.currentStep = "review"
                 /\ isComplete
                 /\ wizard'.timers = wizard.timers + 1]_vars

\* C30 witness: the timer of a submit has fired; the wizard shows the
\* complete step with the digital ID set and no timer left.
C30_Issued ==
    /\ wizard.currentStep = "complete"
    /\ wizard.digitalId = <<mockDigitalId>>
    /\ wizard.timers = 0
    /\ isComplete
=============================================================================
